---- MODULE Spec2Model ----
(***************************************************************************)
(* Model of the sensor intake front-end of the ECL EKF                     *)
(* (src/EKF/estimator_interface.cpp): initialise_interface, the IMU intake *)
(* with its drag down-sampler, and the eight observation intakes.          *)
(*                                                                         *)
(* Timestamps are uint64_t microseconds in the source.  TLC's integers are *)
(* 32 bits wide, so unsigned arithmetic is carried out modulo UMax, which  *)
(* stands for 2^64: every timestamp fed in is far below UMax, so a wrapped *)
(* difference is far above every unwrapped value, as it is with 2^64.      *)
(* Single precision quantities are kept as integers in the unit the caller *)
(* passes them in (microseconds, raw delta velocities); a float quotient   *)
(* is kept as the pair numerator / denominator.                            *)
(***************************************************************************)
EXTENDS Integers, Sequences, FiniteSets, TLC

VARIABLES
    params,               \* _params, fixed after construction
    drivers,              \* the observation sensors whose drivers feed this facade
    ncalls,               \* number of calls made so far (bounds the exploration)
    initialised,          \* _initialised
    imu_buffer_length,    \* _imu_buffer_length
    obs_buffer_length,    \* _obs_buffer_length
    min_obs_interval_us,  \* _min_obs_interval_us
    imu_sample_delayed,   \* _imu_sample_delayed.time_us
    imu_sample_new,       \* _imu_sample_new.time_us
    imu_updated,          \* _imu_updated
    dt_imu_avg,           \* _dt_imu_avg, in nanoseconds
    fault_status,         \* _fault_status.value
    gps_speed_valid,      \* _gps_speed_valid
    time_last,            \* _time_last_imu, _time_last_<sensor>
    imu_buffer,           \* _imu_buffer
    output_buffer,        \* _output_buffer (capacity only)
    output_vert_buffer,   \* _output_vert_buffer (capacity only)
    obs_buffer,           \* _mag_buffer, _gps_buffer, ... one per sensor
    drag_buffer,          \* _drag_buffer
    buffer_fail,          \* _mag_buffer_fail, ..., _drag_buffer_fail
    drag_sample_count,    \* _drag_sample_count
    drag_down_sampled,    \* _drag_down_sampled (accelXY, time_us)
    drag_sample_time_dt,  \* _drag_sample_time_dt
    err_log,              \* number of ECL_ERR allocation messages, per buffer
    fault,                \* first undefined operation executed, "none" if none
    halted,               \* the process was stopped by a trap
    last,                 \* the call made last: the operation and what it did
    n_imu_in,             \* setIMUData calls completed
    n_imu_ds,             \* of these, calls in which collect_imu returned true
    n_drag_out            \* samples pushed to _drag_buffer

progvars == <<initialised, imu_buffer_length, obs_buffer_length, min_obs_interval_us,
              imu_sample_delayed, imu_sample_new, imu_updated, dt_imu_avg,
              fault_status, gps_speed_valid, time_last, imu_buffer,
              output_buffer, output_vert_buffer, obs_buffer, drag_buffer, buffer_fail,
              drag_sample_count, drag_down_sampled, drag_sample_time_dt, err_log,
              fault, halted>>

vars == <<params, drivers, ncalls, progvars, last, n_imu_in, n_imu_ds, n_drag_out>>

-----------------------------------------------------------------------------
(* Arithmetic *)

UMax == 2^30

U64(x) == x % UMax

U64Sub(a, b) == (a - b) % UMax

U16(x) == x % 65536

Max(a, b) == IF a >= b THEN a ELSE b

Min(a, b) == IF a <= b THEN a ELSE b

\* ceilf((float)n * 0.5f)
CeilHalf(n) == (n + 1) \div 2

\* ceilf((float)a / b), b > 0
CeilDiv(a, b) == (a + b - 1) \div b

FILTER_UPDATE_PERIOD_MS == 12

\* FILTER_UPDATE_PERIOD_MS * 1000 / 2
HalfPeriodUs == (FILTER_UPDATE_PERIOD_MS * 1000) \div 2

-----------------------------------------------------------------------------
(* Names *)

Sensors == {"mag", "gps", "baro", "airspeed", "range", "flow", "ev", "auxvel"}

FailFlags == Sensors \cup {"drag"}

TimeLastNames == Sensors \cup {"imu"}

-----------------------------------------------------------------------------
(* RingBuffer<T>: capacity len, samples oldest first *)

Unallocated == [len |-> 0, data |-> <<>>]

\* allocate(n) is idempotent for the same length: on a buffer that has this
\* capacity it changes nothing and succeeds.  Otherwise ok says whether the
\* memory is granted; when it is not, the buffer is left as it was.
Allocates(b, n, ok) == b.len = n \/ ok

Allocate(b, n, ok) ==
    IF b.len = n \/ ~ok THEN b
    ELSE [len |-> n, data |-> <<>>]

\* A buffer without storage keeps nothing.
Push(b, s) ==
    IF b.len = 0 THEN b
    ELSE IF Len(b.data) < b.len THEN [b EXCEPT !.data = Append(@, s)]
    ELSE [b EXCEPT !.data = Append(Tail(@), s)]

GetOldest(b) == Head(b.data)

GetNewest(b) == b.data[Len(b.data)]

-----------------------------------------------------------------------------
(* The program state as one record, so that a handler is a function from   *)
(* state to state and the calls it makes compose.                          *)

Cur ==
    [initialised |-> initialised, imu_buffer_length |-> imu_buffer_length,
     obs_buffer_length |-> obs_buffer_length,
     min_obs_interval_us |-> min_obs_interval_us,
     imu_sample_delayed |-> imu_sample_delayed, imu_sample_new |-> imu_sample_new,
     imu_updated |-> imu_updated, dt_imu_avg |-> dt_imu_avg,
     fault_status |-> fault_status, gps_speed_valid |-> gps_speed_valid,
     time_last |-> time_last, imu_buffer |-> imu_buffer,
     output_buffer |-> output_buffer, output_vert_buffer |-> output_vert_buffer,
     obs_buffer |-> obs_buffer, drag_buffer |-> drag_buffer,
     buffer_fail |-> buffer_fail, drag_sample_count |-> drag_sample_count,
     drag_down_sampled |-> drag_down_sampled,
     drag_sample_time_dt |-> drag_sample_time_dt, err_log |-> err_log,
     fault |-> fault, halted |-> halted, last |-> last]

Commit(s) ==
    /\ last' = s.last
    /\ time_last' = s.time_last
    /\ obs_buffer' = s.obs_buffer
    /\ initialised' = s.initialised
    /\ imu_buffer_length' = s.imu_buffer_length
    /\ obs_buffer_length' = s.obs_buffer_length
    /\ min_obs_interval_us' = s.min_obs_interval_us
    /\ imu_sample_delayed' = s.imu_sample_delayed
    /\ imu_sample_new' = s.imu_sample_new
    /\ imu_updated' = s.imu_updated
    /\ dt_imu_avg' = s.dt_imu_avg
    /\ fault_status' = s.fault_status
    /\ gps_speed_valid' = s.gps_speed_valid
    /\ imu_buffer' = s.imu_buffer
    /\ output_buffer' = s.output_buffer
    /\ output_vert_buffer' = s.output_vert_buffer
    /\ drag_buffer' = s.drag_buffer
    /\ buffer_fail' = s.buffer_fail
    /\ drag_sample_count' = s.drag_sample_count
    /\ drag_down_sampled' = s.drag_down_sampled
    /\ drag_sample_time_dt' = s.drag_sample_time_dt
    /\ err_log' = s.err_log
    /\ fault' = s.fault
    /\ halted' = s.halted
    /\ ncalls' = ncalls + 1
    /\ UNCHANGED <<params, drivers>>

\* What is recorded of a call: the operation, then what it did: init is "none",
\* "ok" or "failed" (initialise_interface was run and returned true or false),
\* alloc the observation or drag buffers allocate was called on, pushed the
\* buffers a sample was pushed to, payload what the pushed sample carries
\* besides its time_us where that is modelled (GPS: pos; optical flow: gyroXYZ).
CallRec(op) ==
    [op |-> op, init |-> "none", alloc |-> {}, pushed |-> {}, payload |-> <<>>]

\* An undefined operation: the first one is remembered; the build either traps
\* there or goes on.
Undefined(s, kind, ub) ==
    [s EXCEPT !.fault = IF @ = "none" THEN kind ELSE @,
              !.halted = (ub = "trap")]

UBOutcomes == {"trap", "low", "high"}

Garbage(ub) == IF ub = "high" THEN UMax - 1 ELSE 0

-----------------------------------------------------------------------------
(* initialise_interface *)

MaxTimeDelayMs(p) ==
    Max(p.mag_delay_ms,
      Max(p.range_delay_ms,
        Max(p.gps_delay_ms,
          Max(p.flow_delay_ms,
            Max(p.ev_delay_ms,
              Max(p.auxvel_delay_ms,
                Max(p.min_delay_ms,
                  Max(p.airspeed_delay_ms, p.baro_delay_ms))))))))

ImuBufferLength(p) == (MaxTimeDelayMs(p) \div FILTER_UPDATE_PERIOD_MS) + 1

\* uint16_t ekf_delay_ms
EkfDelayMs(p) == U16(MaxTimeDelayMs(p) + CeilHalf(MaxTimeDelayMs(p)))

\* ekf_delay_ms / sensor_interval_min_ms, where the division is defined
ObsLengthQuotient(p, ub) ==
    IF p.sensor_interval_min_ms = 0 THEN Garbage(ub)
    ELSE EkfDelayMs(p) \div p.sensor_interval_min_ms

ObsBufferLength(p, ub) == Min(ObsLengthQuotient(p, ub) + 1, ImuBufferLength(p))

unallocate_buffers_keeps_imu(s) ==
    [s EXCEPT !.obs_buffer = [b \in Sensors |-> Unallocated],
              !.output_buffer = Unallocated,
              !.output_vert_buffer = Unallocated,
              !.drag_buffer = Unallocated]

unallocate_buffers(s) ==
    [s EXCEPT !.imu_buffer = Unallocated,
              !.obs_buffer = [b \in Sensors |-> Unallocated],
              !.output_buffer = Unallocated,
              !.output_vert_buffer = Unallocated,
              !.drag_buffer = Unallocated]

\* The resets made once the three buffers are allocated.
ResetInterface(s, timestamp) ==
    [s EXCEPT !.dt_imu_avg = 0,
              !.fault_status = 0,
              !.imu_sample_delayed = timestamp,
              !.initialised = FALSE,
              !.time_last = [n \in TimeLastNames |->
                               IF n = "auxvel" THEN s.time_last[n] ELSE 0]]

ImuAllocLength_obs(s) == s.obs_buffer_length

\* The length _imu_buffer is allocated with, line 542.
ImuAllocLength(s) == s.imu_buffer_length

\* nalloc: for how many of the three allocations, in the order they are made,
\* memory is there.  The && chain stops at the first allocation that fails.
InitialiseInterface(s, p, timestamp, nalloc, ub) ==
    LET s1 == [s EXCEPT !.imu_buffer_length = ImuBufferLength(p)]
        s2 == [s1 EXCEPT !.obs_buffer_length = ObsBufferLength(p, ub)]
        ok1 == Allocates(s.imu_buffer, ImuAllocLength(s2), nalloc >= 1)
        ok2 == ok1 /\ Allocates(s.output_buffer, s2.imu_buffer_length, nalloc >= 2)
        ok3 == ok2 /\ Allocates(s.output_vert_buffer, s2.imu_buffer_length,
                                nalloc >= 3)
        s3 == [s2 EXCEPT
                 !.imu_buffer = Allocate(@, ImuAllocLength(s2), nalloc >= 1),
                 !.output_buffer =
                     IF ok1 THEN Allocate(@, s2.imu_buffer_length, nalloc >= 2)
                     ELSE @,
                 !.output_vert_buffer =
                     IF ok2 THEN Allocate(@, s2.imu_buffer_length, nalloc >= 3)
                     ELSE @]
    IN  IF p.sensor_interval_min_ms = 0 /\ ub = "trap"
        THEN Undefined(s1, "div_by_zero", ub)
        ELSE LET s4 == IF p.sensor_interval_min_ms = 0
                       THEN Undefined(s3, "div_by_zero", ub) ELSE s3
             IN  IF ~ok3
                 THEN [unallocate_buffers(s4) EXCEPT !.last.init = "failed"]
                 ELSE [ResetInterface(s4, timestamp) EXCEPT !.last.init = "ok"]

\* Ekf::init, which setIMUData calls: it runs initialise_interface.
init(s, p, timestamp, nalloc, ub) == InitialiseInterface(s, p, timestamp, nalloc, ub)

-----------------------------------------------------------------------------
(* setIMUData *)

\* collect_imu: keeps the sample as _imu_sample_new; ready is its result.
collect_imu(s, t, ready) ==
    [s EXCEPT !.imu_sample_new = t]

\* _imu_buffer.push and get_oldest, lines 92 to 97.  On a buffer that holds no
\* storage both are undefined: the store is lost and the read yields garbage.
PushImu(s, t, ub) ==
    IF s.imu_buffer.len = 0
    THEN [Undefined(s, "null_buffer", ub) EXCEPT
             !.imu_updated = TRUE, !.imu_sample_delayed = Garbage(ub)]
    ELSE LET b == Push(s.imu_buffer, t)
         IN  [s EXCEPT !.imu_buffer = b, !.imu_updated = TRUE,
                       !.imu_sample_delayed = GetOldest(b),
                       !.last.pushed = @ \cup {"imu"}]

\* line 101
MinObsInterval(s, ub) ==
    IF s.obs_buffer_length - 1 = 0 THEN Garbage(ub)
    ELSE U64Sub(s.imu_sample_new, s.imu_sample_delayed) \div (s.obs_buffer_length - 1)

UpdateMinObsInterval(s, ub) ==
    LET s1 == [s EXCEPT !.min_obs_interval_us = MinObsInterval(s, ub)]
    IN  IF s.obs_buffer_length - 1 = 0
        THEN Undefined(IF ub = "trap" THEN s ELSE s1, "div_by_zero", ub)
        ELSE s1

MinSampleRatio_no_floor(s) ==
    CeilDiv(s.imu_buffer_length, s.obs_buffer_length) % 256

\* (uint8_t) ceilf((float)_imu_buffer_length / _obs_buffer_length), at least 5
MinSampleRatio(s) ==
    Max(CeilDiv(s.imu_buffer_length, s.obs_buffer_length) % 256, 5)

DragEnabled(s, p) == p.use_drag /\ ~s.buffer_fail["drag"]

\* lines 117 to 122
DragAccumulate(s, t, dv, dvdt) ==
    [s EXCEPT !.drag_sample_count = @ + 1,
              !.drag_down_sampled =
                  [accelXY |-> <<@.accelXY[1] + dv[1], @.accelXY[2] + dv[2]>>,
                   time_us |-> U64(@.time_us + t)],
              !.drag_sample_time_dt = @ + dvdt]

DragZero == [accelXY |-> <<0, 0>>, time_us |-> 0]

\* lines 132 to 147
DragEmit(s) ==
    IF s.drag_sample_count >= MinSampleRatio(s)
    THEN [s EXCEPT !.drag_buffer =
                       Push(@, [accelXY |-> s.drag_down_sampled.accelXY,
                                dt |-> s.drag_sample_time_dt,
                                time_us |-> s.drag_down_sampled.time_us
                                              \div s.drag_sample_count]),
                   !.last.pushed = @ \cup {"drag"},
                   !.drag_sample_count = 0,
                   !.drag_down_sampled = DragZero,
                   !.drag_sample_time_dt = 0]
    ELSE s

\* lines 105 to 148
DragDownSample(s, p, t, dv, dvdt, drag_ok) ==
    IF ~DragEnabled(s, p) THEN s
    ELSE LET need == s.drag_buffer.len < s.obs_buffer_length
             s1 == IF need
                   THEN [s EXCEPT
                           !.buffer_fail["drag"] = ~drag_ok,
                           !.drag_buffer = Allocate(@, s.obs_buffer_length, drag_ok),
                           !.last.alloc = @ \cup {"drag"}]
                   ELSE s
         IN  IF s1.buffer_fail["drag"]
             THEN [s1 EXCEPT !.err_log["drag"] = @ + 1]
             ELSE DragEmit(DragAccumulate(s1, t, dv, dvdt))

\* if (!_initialised)
NeedsInit(s) == ~s.initialised

\* The limits of math::constrain at line 57, 1.0e-4f and 0.02f seconds, in
\* microseconds.
DtMinUs == 100

DtMaxUs == 20000

\* dt of line 57 in microseconds: the unsigned difference of the time stamps,
\* constrained.
DtImu(t, tlast) == Min(Max(U64Sub(t, tlast), DtMinUs), DtMaxUs)

\* 0.8f * _dt_imu_avg + 0.2f * dt, in nanoseconds, rounded down.
DtImuAvg(avg, dt) == (4 * avg + 1000 * dt) \div 5

\* Lines 57 to 63: dt is taken against the previous _time_last_imu, the test
\* that guards the average is made on the new one.
UpdateDtImuAvg(s, t) ==
    [s EXCEPT !.time_last["imu"] = t,
              !.dt_imu_avg = IF t > 0
                             THEN DtImuAvg(@, DtImu(t, s.time_last["imu"]))
                             ELSE @]

SetIMUData(s, p, t, dv, dvdt, ready, nalloc, drag_ok, ub) ==
    LET s0 == [s EXCEPT !.last = CallRec("setIMUData")]
        s1 == IF NeedsInit(s) THEN init(s0, p, t, nalloc, ub) ELSE s0
        s2 == UpdateDtImuAvg([s1 EXCEPT !.initialised = TRUE], t)
        s3 == collect_imu(s2, t, ready)
        s4 == PushImu(s3, t, ub)
        s5 == UpdateMinObsInterval(s4, ub)
    IN  IF s1.halted THEN s1
        ELSE IF ~ready THEN [s3 EXCEPT !.imu_updated = FALSE]
        ELSE IF s4.halted THEN s4
        ELSE IF s5.halted THEN s5
        ELSE DragDownSample(s5, p, t, dv, dvdt, drag_ok)

-----------------------------------------------------------------------------
(* The observation intakes *)

IntakeOpen_retries(s, b) == s.initialised

IntakeOpen_uninitialised(s, b) == ~s.buffer_fail[b]

\* if (!_initialised || _<sensor>_buffer_fail) return;
IntakeOpen(s, b) == s.initialised /\ ~s.buffer_fail[b]

NeedsAllocation_never(s, b) == FALSE

\* _<sensor>_buffer.get_length() < _obs_buffer_length
NeedsAllocation(s, b) == s.obs_buffer[b].len < s.obs_buffer_length

RateLimitPass_signed(t, tlast, interval) == t - tlast > interval

RateLimitPass_ge(t, tlast, interval) == U64Sub(t, tlast) >= interval

\* time_usec - _time_last_<sensor> > _min_obs_interval_us, on unsigned operands
RateLimitPass(t, tlast, interval) == U64Sub(t, tlast) > interval

\* time_usec - delay_ms * 1000, then -= FILTER_UPDATE_PERIOD_MS * 1000 / 2
BackDate(t, delay_ms) == U64Sub(U64Sub(t, delay_ms * 1000), HalfPeriodUs)

\* time_usec - delay_ms * 1000
BackDateDelayOnly(t, delay_ms) == U64Sub(t, delay_ms * 1000)

ClampToDelayed_none(s, stamp) == stamp

\* math::max(sample.time_us, _imu_sample_delayed.time_us)
ClampToDelayed(s, stamp) == Max(stamp, s.imu_sample_delayed)

\* The prologue and the push the eight intakes share: stamp is the time_us the
\* sample is stored with, gate the sensor's own conditions besides the rate limit.
ObsIntake(s, b, op, t, ok, stamp, gate) ==
    LET s0 == [s EXCEPT !.last = CallRec(op)]
        need == NeedsAllocation(s, b)
        s1 == IF need
              THEN [s0 EXCEPT !.buffer_fail[b] = ~ok,
                              !.obs_buffer[b] = Allocate(@, s.obs_buffer_length, ok),
                              !.last.alloc = {b}]
              ELSE s0
    IN  IF ~IntakeOpen(s, b) THEN s0
        ELSE IF s1.buffer_fail[b] THEN [s1 EXCEPT !.err_log[b] = @ + 1]
        ELSE IF RateLimitPass(t, s.time_last[b], s.min_obs_interval_us) /\ gate
        THEN [s1 EXCEPT !.time_last[b] = t,
                        !.obs_buffer[b] = Push(@, stamp),
                        !.last.pushed = {b}]
        ELSE s1

MagTimeUs(p, t) == BackDate(t, p.mag_delay_ms)

SetMagData(s, p, t, ok) ==
    ObsIntake(s, "mag", "setMagData", t, ok, MagTimeUs(p, t), TRUE)

NeedGps_mask_only(p) == p.use_gps

\* need_gps: fusion_mode has MASK_USE_GPS, or vdist_sensor_type is VDIST_SENSOR_GPS
NeedGps(p) == p.use_gps \/ p.vdist_gps

GpsTimeUs(s, p, gps_time_usec) ==
    ClampToDelayed(s, BackDate(gps_time_usec, p.gps_delay_ms))

\* gps_sample_new.pos: origin is what collect_gps returns, lpos what
\* map_projection_project makes of gps->lat and gps->lon.
GpsPos(origin, lpos) == IF origin THEN lpos ELSE <<0, 0>>

GpsSpeedValid_always(s, accepted, vel_ned_valid) == vel_ned_valid

\* _gps_speed_valid = gps->vel_ned_valid, made for a sample that passes the
\* gates of line 206.
GpsSpeedValid(s, accepted, vel_ned_valid) ==
    IF accepted THEN vel_ned_valid ELSE s.gps_speed_valid

SetGpsData(s, p, t, gps_time_usec, fix_type, origin, lpos, vel_ned_valid, ok) ==
    LET r == ObsIntake(s, "gps", "setGpsData", t, ok,
                       GpsTimeUs(s, p, gps_time_usec), NeedGps(p) /\ fix_type > 2)
        accepted == "gps" \in r.last.pushed
        r1 == [r EXCEPT !.gps_speed_valid = GpsSpeedValid(r, accepted, vel_ned_valid)]
    IN  IF accepted
        THEN [r1 EXCEPT !.last.payload = GpsPos(origin, lpos)]
        ELSE r1

BaroTimeUs(s, p, t) == ClampToDelayed(s, BackDate(t, p.baro_delay_ms))

SetBaroData(s, p, t, ok) ==
    ObsIntake(s, "baro", "setBaroData", t, ok, BaroTimeUs(s, p, t), TRUE)

AirspeedTimeUs(p, t) == BackDate(t, p.airspeed_delay_ms)

SetAirspeedData(s, p, t, ok) ==
    ObsIntake(s, "airspeed", "setAirspeedData", t, ok, AirspeedTimeUs(p, t), TRUE)

RangeTimeUs(p, t) == BackDateDelayOnly(t, p.range_delay_ms)

SetRangeData(s, p, t, ok) ==
    ObsIntake(s, "range", "setRangeData", t, ok, RangeTimeUs(p, t), TRUE)

\* delta_time >= delta_time_min: 1e-6 * dt >= 5e-7 * _min_obs_interval_us
DeltaTimeGood(s, dt) == 2 * dt >= s.min_obs_interval_us

\* flowdata.norm() / delta_time <= flow_rate_max, evaluated only when the
\* integration time is good; flow_urad is the norm in micro-radians, so the
\* rate is flow_urad / dt rad/s; with dt = 0 the quotient is inf or NaN and the
\* comparison is false.
FlowMagnitudeGood(s, p, dt, flow_urad) ==
    IF DeltaTimeGood(s, dt)
    THEN dt # 0 /\ flow_urad <= p.flow_rate_max * dt
    ELSE TRUE

FlowQualityGood(p, quality) == quality >= p.flow_qual_min

FlowGate_quality_only(s, p, dt, flow_urad, quality, in_air) ==
    FlowQualityGood(p, quality) \/ ~in_air

FlowGate(s, p, dt, flow_urad, quality, in_air) ==
    \/ (DeltaTimeGood(s, dt) /\ FlowQualityGood(p, quality)
            /\ FlowMagnitudeGood(s, p, dt, flow_urad))
    \/ ~in_air

\* time_usec - flow_delay_ms * 1000 - dt / 2
FlowTimeUs(p, t, dt) == U64Sub(U64Sub(t, p.flow_delay_ms * 1000), dt \div 2)

\* A single precision value: finite with an integer value, or not finite.
Fin(v) == [fin |-> TRUE, val |-> v]

NaN == [fin |-> FALSE, val |-> 0]

FNeg(x) == IF x.fin THEN Fin(-x.val) ELSE x

FMul(x, k) == IF x.fin THEN Fin(x.val * k) ELSE x

\* An integer quotient as a float: x / 0 is infinite or NaN.
FDiv(a, b) == IF b = 0 THEN NaN ELSE Fin(a \div b)

\* !PX4_ISFINITE(gyrodata(0)) && !PX4_ISFINITE(gyrodata(1)) && !PX4_ISFINITE(gyrodata(2))
NoGyro(gyrodata) == ~gyrodata[1].fin /\ ~gyrodata[2].fin /\ ~gyrodata[3].fin

\* matching_imu_sample.delta_ang / matching_imu_sample.delta_ang_dt, with
\* delta_ang in milli-radians and delta_ang_dt in milliseconds.
MatchingGyroSample(imu) == [i \in 1..3 |-> FDiv(imu.delta_ang[i], imu.delta_ang_dt)]

\* optflow_sample_new.gyroXYZ as pushed: the rate derived from the IMU sample,
\* its first two components scaled back by delta_ang_dt, or the negated
\* gyrodata of the driver.  imu is the sample read_first_older_than hands back.
FlowGyroXYZ(gyrodata, imu) ==
    IF NoGyro(gyrodata)
    THEN LET m == MatchingGyroSample(imu)
         IN  <<FMul(m[1], imu.delta_ang_dt), FMul(m[2], imu.delta_ang_dt), m[3]>>
    ELSE [i \in 1..3 |-> FNeg(gyrodata[i])]

\* flow: the flow_message, [dt, flow_urad, quality, gyrodata].
SetOpticalFlowData(s, p, t, flow, imu, in_air, ok) ==
    LET r == ObsIntake(s, "flow", "setOpticalFlowData", t, ok,
                       FlowTimeUs(p, t, flow.dt),
                       FlowGate(s, p, flow.dt, flow.flow_urad, flow.quality, in_air))
    IN  IF "flow" \in r.last.pushed
        THEN [r EXCEPT !.last.payload =
                         [no_gyro |-> NoGyro(flow.gyrodata),
                          gyroXYZ |-> FlowGyroXYZ(flow.gyrodata, imu)]]
        ELSE r

ExtVisionTimeUs(p, t) == BackDateDelayOnly(t, p.ev_delay_ms)

SetExtVisionData(s, p, t, ok) ==
    ObsIntake(s, "ev", "setExtVisionData", t, ok, ExtVisionTimeUs(p, t), TRUE)

AuxVelTimeUs(p, t) == BackDate(t, p.auxvel_delay_ms)

SetAuxVelData(s, p, t, ok) ==
    ObsIntake(s, "auxvel", "setAuxVelData", t, ok, AuxVelTimeUs(p, t), TRUE)

-----------------------------------------------------------------------------
(* Configurations and inputs *)

\* Delays that give an IMU buffer of 2 and observation buffers of 2.
NominalParams ==
    [mag_delay_ms |-> 0, range_delay_ms |-> 5, gps_delay_ms |-> 20,
     flow_delay_ms |-> 5, ev_delay_ms |-> 20, auxvel_delay_ms |-> 0,
     min_delay_ms |-> 0, airspeed_delay_ms |-> 10, baro_delay_ms |-> 8,
     sensor_interval_min_ms |-> 20, use_gps |-> TRUE, use_drag |-> TRUE,
     vdist_gps |-> FALSE, flow_rate_max |-> 2, flow_qual_min |-> 1]

\* One observation driver at a time feeds the facade, beside the IMU.
DriverSets == {{b} : b \in Sensors}

FixTypes == {2, 3}

FlowDts == {2000, 40000}

FlowNorms == {1000, 200000}

Qualities == {0, 200}

DeltaVels == {<<1, 2>>}

DeltaVelDts == {4000}

\* The inputs that matter in the current state: an allocation outcome where an
\* allocation can be made, an outcome of undefined behaviour where there can be
\* any.
AllocChoices(need) == IF need THEN BOOLEAN ELSE {TRUE}

InitAllocChoices == 0..3

UBChoices(nalloc) ==
    IF \/ params.sensor_interval_min_ms = 0
       \/ ObsBufferLength(params, "low") = 1
       \/ nalloc < 3
       \/ (initialised /\ imu_buffer.len = 0)
    THEN UBOutcomes ELSE {"low"}

-----------------------------------------------------------------------------
(* Initial state: the facade as constructed *)

InitFacade ==
    /\ ncalls = 0
    /\ initialised = FALSE
    /\ imu_buffer_length = 0
    /\ obs_buffer_length = 0
    /\ min_obs_interval_us = 0
    /\ imu_sample_delayed = 0
    /\ imu_sample_new = 0
    /\ imu_updated = FALSE
    /\ dt_imu_avg = 0
    /\ fault_status = 0
    /\ gps_speed_valid = FALSE
    /\ time_last = [n \in TimeLastNames |-> 0]
    /\ imu_buffer = Unallocated
    /\ output_buffer = Unallocated
    /\ output_vert_buffer = Unallocated
    /\ obs_buffer = [b \in Sensors |-> Unallocated]
    /\ drag_buffer = Unallocated
    /\ buffer_fail = [b \in FailFlags |-> FALSE]
    /\ drag_sample_count = 0
    /\ drag_down_sampled = DragZero
    /\ drag_sample_time_dt = 0
    /\ err_log = [b \in FailFlags |-> 0]
    /\ fault = "none"
    /\ halted = FALSE
    /\ last = CallRec("construct")
    /\ n_imu_in = 0
    /\ n_imu_ds = 0
    /\ n_drag_out = 0

-----------------------------------------------------------------------------
(* Actions: one per call of the interface *)

\* Counting the IMU samples fed in and the drag samples pushed, for the
\* specification that checks the drag down-sampler.
CountImu(ready) ==
    /\ n_imu_in' = IF halted' THEN n_imu_in ELSE n_imu_in + 1
    /\ n_imu_ds' = IF ~halted' /\ ready THEN n_imu_ds + 1 ELSE n_imu_ds
    /\ n_drag_out' = IF "drag" \in last'.pushed THEN n_drag_out + 1 ELSE n_drag_out

NoImu == UNCHANGED <<n_imu_in, n_imu_ds, n_drag_out>>

initialise_interface(timestamp, nalloc, ub) ==
    /\ Commit(InitialiseInterface(
                 [Cur EXCEPT !.last = CallRec("initialise_interface")],
                 params, timestamp, nalloc, ub))
    /\ NoImu

\* The EKF core, between two calls of the interface, records a fault in
\* _fault_status; value stands for the bits it sets.
EkfFault(value) ==
    /\ Commit([Cur EXCEPT !.fault_status = value, !.last = CallRec("EkfFault")])
    /\ NoImu

setIMUData(t, dv, dvdt, ready, nalloc, drag_ok, ub) ==
    Commit(SetIMUData(Cur, params, t, dv, dvdt, ready, nalloc, drag_ok, ub))

setMagData(t, ok) ==
    "mag" \in drivers /\ Commit(SetMagData(Cur, params, t, ok)) /\ NoImu

setGpsData(t, gps_time_usec, fix_type, origin, lpos, vel_ned_valid, ok) ==
    /\ "gps" \in drivers
    /\ Commit(SetGpsData(Cur, params, t, gps_time_usec, fix_type, origin, lpos,
                         vel_ned_valid, ok))
    /\ NoImu

setBaroData(t, ok) ==
    "baro" \in drivers /\ Commit(SetBaroData(Cur, params, t, ok)) /\ NoImu

setAirspeedData(t, ok) ==
    "airspeed" \in drivers /\ Commit(SetAirspeedData(Cur, params, t, ok)) /\ NoImu

setRangeData(t, ok) ==
    "range" \in drivers /\ Commit(SetRangeData(Cur, params, t, ok)) /\ NoImu

setOpticalFlowData(t, flow, imu, in_air, ok) ==
    /\ "flow" \in drivers
    /\ Commit(SetOpticalFlowData(Cur, params, t, flow, imu, in_air, ok))
    /\ NoImu

setExtVisionData(t, ok) ==
    "ev" \in drivers /\ Commit(SetExtVisionData(Cur, params, t, ok)) /\ NoImu

setAuxVelData(t, ok) ==
    "auxvel" \in drivers /\ Commit(SetAuxVelData(Cur, params, t, ok)) /\ NoImu

ObsAlloc(b) == AllocChoices(IntakeOpen(Cur, b) /\ NeedsAllocation(Cur, b))

InitCall(timestamps) ==
    \E timestamp \in timestamps, nalloc \in InitAllocChoices :
        \E ub \in UBChoices(3) : initialise_interface(timestamp, nalloc, ub)

\* nallocs: the outcomes of the allocations of the init a first call runs.
ImuCall(times, dvs, dvdts, nallocs, counted) ==
    \E t \in times, dv \in dvs, dvdt \in dvdts, ready \in BOOLEAN :
        \E nalloc \in (IF NeedsInit(Cur) THEN nallocs ELSE {3}) :
            \E drag_ok \in AllocChoices(ready /\ params.use_drag
                                          /\ (drag_buffer.len = 0 \/ NeedsInit(Cur))),
               ub \in UBChoices(nalloc) :
                /\ setIMUData(t, dv, dvdt, ready, nalloc, drag_ok, ub)
                /\ IF counted THEN CountImu(ready) ELSE NoImu

\* The GPS message carries its own time stamp: that of the call, or an older one.
GpsMsgTimes(t) == {t, 16000}

\* Local positions map_projection_project returns.
GpsProjections == {<<3, -4>>}

\* valids: the values of gps->vel_ned_valid the driver sends.
GpsCall(times, valids) ==
    \E t \in times, f \in FixTypes, origin \in BOOLEAN, lpos \in GpsProjections,
       valid \in valids, ok \in ObsAlloc("gps") :
       \E g \in GpsMsgTimes(t) : setGpsData(t, g, f, origin, lpos, valid, ok)

\* gyrodata of the driver: all finite, one component not finite, none finite.
GyroDatas ==
    {<<Fin(1), Fin(-2), Fin(3)>>, <<NaN, Fin(-2), Fin(3)>>, <<NaN, NaN, NaN>>}

\* gyrodata of a driver with a working gyro.
FiniteGyroDatas == {<<Fin(1), Fin(-2), Fin(3)>>}

\* The flow messages of the driver.
FlowMessages(gyrodatas) ==
    [dt : FlowDts, flow_urad : FlowNorms, quality : Qualities, gyrodata : gyrodatas]

\* IMU samples the look-up in _imu_buffer hands back.
MatchingImuSamples == {[delta_ang |-> <<20, 0, 40>>, delta_ang_dt |-> 10]}

FlowCall(times, gyrodatas) ==
    \E t \in times, flow \in FlowMessages(gyrodatas), imu \in MatchingImuSamples,
       a \in BOOLEAN, ok \in ObsAlloc("flow") :
       setOpticalFlowData(t, flow, imu, a, ok)

ObsCall(times) ==
    \/ \E t \in times, ok \in ObsAlloc("mag") : setMagData(t, ok)
    \/ GpsCall(times, {TRUE})
    \/ \E t \in times, ok \in ObsAlloc("baro") : setBaroData(t, ok)
    \/ \E t \in times, ok \in ObsAlloc("airspeed") : setAirspeedData(t, ok)
    \/ \E t \in times, ok \in ObsAlloc("range") : setRangeData(t, ok)
    \/ FlowCall(times, FiniteGyroDatas)
    \/ \E t \in times, ok \in ObsAlloc("ev") : setExtVisionData(t, ok)
    \/ \E t \in times, ok \in ObsAlloc("auxvel") : setAuxVelData(t, ok)

-----------------------------------------------------------------------------
(* Spec: every call of the interface, every allocation outcome, with few    *)
(* time stamps.                                                            *)

AllocTimes == {16000, 40000}

ImuAllocTimes == {40000}

InitTimes == {28000}

MaxCalls == 5

\* Delays with which the IMU buffer is longer than the observation buffers:
\* _imu_buffer_length 4, _obs_buffer_length 2.
AllocParams ==
    [NominalParams EXCEPT !.ev_delay_ms = 36, !.sensor_interval_min_ms = 40]

AllocConfigs == {NominalParams, AllocParams}

Init ==
    /\ params \in AllocConfigs
    /\ drivers \in DriverSets
    /\ InitFacade

Next ==
    /\ ~halted
    /\ ncalls < MaxCalls
    /\ \/ InitCall(InitTimes)
       \/ ImuCall(ImuAllocTimes, DeltaVels, DeltaVelDts, InitAllocChoices, FALSE)
       \/ ObsCall(AllocTimes)

Spec == Init /\ [][Next]_vars

-----------------------------------------------------------------------------
(* SpecTime: the time stamps of the samples.  The IMU driver's time stamps  *)
(* increase, those of the observation drivers are arbitrary; the buffers   *)
(* of initialise_interface are allocated, drag fusion is off.              *)

Times == {4000, 16000, 28000, 40000}

MaxTimeCalls == 4

InitTime ==
    /\ params = [NominalParams EXCEPT !.use_drag = FALSE]
    /\ drivers \in DriverSets
    /\ InitFacade

NextTime ==
    /\ ~halted
    /\ ncalls < MaxTimeCalls
    /\ \/ ImuCall({t \in Times : t > time_last["imu"]}, DeltaVels, DeltaVelDts,
                  {3}, FALSE)
       \/ ObsCall(Times)

SpecTime == InitTime /\ [][NextTime]_vars

-----------------------------------------------------------------------------
(* SpecSizing: initialise_interface and the IMU intake over a grid of       *)
(* delay parameters, each of the nine delays in turn the largest.          *)

DelayFields ==
    {"mag_delay_ms", "range_delay_ms", "gps_delay_ms", "flow_delay_ms",
     "ev_delay_ms", "auxvel_delay_ms", "min_delay_ms", "airspeed_delay_ms",
     "baro_delay_ms"}

SizingDelays == {0, 11, 12, 20, 175, 43690, 43691, 65535}

SizingIntervals == {0, 20, 90}

SizingBase ==
    [f \in DOMAIN NominalParams |->
        IF f \in DelayFields THEN 2
        ELSE IF f = "use_drag" THEN FALSE ELSE NominalParams[f]]

SizingParams ==
    {[SizingBase EXCEPT ![f] = d, !.sensor_interval_min_ms = i] :
        f \in DelayFields, d \in SizingDelays, i \in SizingIntervals}

SizingTimes == {16000, 40000}

MaxSizingCalls == 2

InitSizing ==
    /\ params \in SizingParams
    /\ drivers = {}
    /\ InitFacade

NextSizing ==
    /\ ~halted
    /\ ncalls < MaxSizingCalls
    /\ \/ InitCall(InitTimes)
       \/ ImuCall(SizingTimes, DeltaVels, DeltaVelDts, InitAllocChoices, FALSE)

SpecSizing == InitSizing /\ [][NextSizing]_vars

-----------------------------------------------------------------------------
(* SpecDrag: the drag down-sampler under a run of IMU samples one IMU       *)
(* period apart, of which the down-sampler of collect_imu swallows a few.  *)

\* An IMU buffer of 11 and observation buffers of 2: a sample ratio of 6.
LongDelayParams ==
    [NominalParams EXCEPT !.ev_delay_ms = 120, !.sensor_interval_min_ms = 100]

DragParams == {NominalParams, LongDelayParams}

DragDeltaVels == {<<1, 2>>, <<3, 0>>}

ImuPeriodUs == FILTER_UPDATE_PERIOD_MS * 1000

MaxDragCalls == 12

MaxSkipped == 2

InitDrag ==
    /\ params \in DragParams
    /\ drivers = {}
    /\ InitFacade

NextDrag ==
    /\ ~halted
    /\ ncalls < MaxDragCalls
    /\ ImuCall({time_last["imu"] + ImuPeriodUs}, DragDeltaVels, DeltaVelDts, {3}, TRUE)
    /\ n_imu_in' - n_imu_ds' <= MaxSkipped

SpecDrag == InitDrag /\ [][NextDrag]_vars

-----------------------------------------------------------------------------
(* SpecRate: the rate limit.  Two IMU samples 20 ms apart set the interval  *)
(* to 20000 us; the observation drivers offer samples in any order.        *)

RateImuTimes == {1000, 21000}

RateObsTimes == {1000, 10000, 21000, 40000, 41000}

MaxRateCalls == 6

InitRate ==
    /\ params = [NominalParams EXCEPT !.use_drag = FALSE]
    /\ drivers \in DriverSets
    /\ InitFacade

NextRate ==
    /\ ~halted
    /\ ncalls < MaxRateCalls
    /\ \/ ImuCall({t \in RateImuTimes : t > time_last["imu"]}, DeltaVels,
                  DeltaVelDts, {3}, FALSE)
       \/ ObsCall(RateObsTimes)

SpecRate == InitRate /\ [][NextRate]_vars

-----------------------------------------------------------------------------
(* SpecGps: the GPS intake under the four settings of the two parameters   *)
(* that request GPS use.                                                   *)

GpsConfigs ==
    {[NominalParams EXCEPT !.use_gps = u, !.vdist_gps = v, !.use_drag = FALSE] :
        u \in BOOLEAN, v \in BOOLEAN}

GpsTimes == {4000, 16000, 28000}

MaxGpsCalls == 4

InitGps ==
    /\ params \in GpsConfigs
    /\ drivers = {"gps"}
    /\ InitFacade

NextGps ==
    /\ ~halted
    /\ ncalls < MaxGpsCalls
    /\ \/ ImuCall({t \in GpsTimes : t > time_last["imu"]}, DeltaVels,
                  DeltaVelDts, {3}, FALSE)
       \/ GpsCall(GpsTimes, {TRUE})

SpecGps == InitGps /\ [][NextGps]_vars

-----------------------------------------------------------------------------
(* SpecFlow: the optical-flow intake, in air and on the ground.            *)

FlowTimes == {4000, 16000, 28000}

MaxFlowCalls == 4

InitFlow ==
    /\ params = [NominalParams EXCEPT !.use_drag = FALSE]
    /\ drivers = {"flow"}
    /\ InitFacade

NextFlow ==
    /\ ~halted
    /\ ncalls < MaxFlowCalls
    /\ \/ ImuCall({t \in FlowTimes : t > time_last["imu"]}, DeltaVels,
                  DeltaVelDts, {3}, FALSE)
       \/ FlowCall(FlowTimes, FiniteGyroDatas)

SpecFlow == InitFlow /\ [][NextFlow]_vars

-----------------------------------------------------------------------------
(* SpecGyro: the optical-flow intake fed by drivers with and without a gyro. *)

MaxGyroCalls == 3

NextGyro ==
    /\ ~halted
    /\ ncalls < MaxGyroCalls
    /\ \/ ImuCall({t \in FlowTimes : t > time_last["imu"]}, DeltaVels,
                  DeltaVelDts, {3}, FALSE)
       \/ FlowCall(FlowTimes, GyroDatas)

SpecGyro == InitFlow /\ [][NextGyro]_vars

-----------------------------------------------------------------------------
(* SpecDt: the average IMU period.  IMU samples arrive with any of a few   *)
(* time stamps, in any order, also twice the same.                         *)

DtTimes == {0, 100, 200, 4000, 30000}

MaxDtCalls == 5

InitDt ==
    /\ params = [NominalParams EXCEPT !.use_drag = FALSE]
    /\ drivers = {}
    /\ InitFacade

NextDt ==
    /\ ~halted
    /\ ncalls < MaxDtCalls
    /\ ImuCall(DtTimes, DeltaVels, DeltaVelDts, {3}, TRUE)

SpecDt == InitDt /\ [][NextDt]_vars

-----------------------------------------------------------------------------
(* SpecReinit: initialise_interface called again on a running interface,   *)
(* after samples were accepted and after the core recorded a fault.        *)

ReinitTimes == {16000, 40000}

FaultValues == {1}

MaxReinitCalls == 5

InitReinit ==
    /\ params = [NominalParams EXCEPT !.use_drag = FALSE]
    /\ drivers \in DriverSets
    /\ InitFacade

NextReinit ==
    /\ ~halted
    /\ ncalls < MaxReinitCalls
    /\ \/ InitCall(InitTimes)
       \/ ImuCall(ReinitTimes, DeltaVels, DeltaVelDts, {3}, FALSE)
       \/ ObsCall(ReinitTimes)
       \/ \E value \in FaultValues : fault_status = 0 /\ EkfFault(value)

SpecReinit == InitReinit /\ [][NextReinit]_vars

-----------------------------------------------------------------------------
(* SpecInterval: the IMU intake and what it derives from _imu_buffer, with *)
(* observation buffers of two samples and of one; no allocation fails.     *)

IntervalConfigs == {[NominalParams EXCEPT !.use_drag = FALSE], SizingBase}

IntervalTimes == {4000, 16000, 28000, 40000}

MaxIntervalCalls == 4

InitInterval ==
    /\ params \in IntervalConfigs
    /\ drivers = {}
    /\ InitFacade

NextInterval ==
    /\ ~halted
    /\ ncalls < MaxIntervalCalls
    /\ \/ \E timestamp \in InitTimes, ub \in UBChoices(3) :
             initialise_interface(timestamp, 3, ub)
       \/ ImuCall(IntervalTimes, DeltaVels, DeltaVelDts, {3}, FALSE)

SpecInterval == InitInterval /\ [][NextInterval]_vars

-----------------------------------------------------------------------------
(* SpecFrame: two observation drivers feed the facade side by side, so that *)
(* a call for one sensor finds the buffer of another one filled.           *)

DriverPairs ==
    {{"gps", "mag"}, {"range", "ev"}, {"baro", "flow"}, {"airspeed", "auxvel"}}

FrameTimes == {16000, 40000}

MaxFrameCalls == 5

InitFrame ==
    /\ params = [NominalParams EXCEPT !.use_drag = FALSE]
    /\ drivers \in DriverPairs
    /\ InitFacade

NextFrame ==
    /\ ~halted
    /\ ncalls < MaxFrameCalls
    /\ \/ ImuCall(FrameTimes, DeltaVels, DeltaVelDts, {3}, FALSE)
       \/ ObsCall(FrameTimes)
       \/ GpsCall(FrameTimes, {FALSE})

SpecFrame == InitFrame /\ [][NextFrame]_vars

-----------------------------------------------------------------------------
(* Properties *)

ObsOps ==
    {"setMagData", "setGpsData", "setBaroData", "setAirspeedData", "setRangeData",
     "setOpticalFlowData", "setExtVisionData", "setAuxVelData"}

IntakeOps == ObsOps \cup {"setIMUData"}

Sorted(q) == \A i \in 1..(Len(q) - 1) : q[i] <= q[i + 1]

\* C1, as stated: two samples pushed one after the other into the buffer of a
\* sensor have stored time_us at least _min_obs_interval_us apart, the interval
\* being the one in force at the later push.  The difference is taken the way
\* the code takes differences, unsigned, which is the reading kindest to the
\* statement.
C1_StoredSeparation ==
    [][\A b \in Sensors :
          (b \in last'.pushed /\ Len(obs_buffer[b].data) > 0)
              => U64Sub(GetNewest(obs_buffer'[b]), GetNewest(obs_buffer[b]))
                     >= min_obs_interval_us']_vars

\* C1, amended: what is separated is the arrival time of the calls.  A sample
\* is pushed only by a call whose time stamp exceeds _time_last_<sensor>, the
\* time stamp of the call that pushed the sample before it (0 for the first
\* after initialise_interface), by more than _min_obs_interval_us, in unsigned
\* arithmetic.
C1_ArrivalSeparation ==
    [][\A b \in Sensors :
          b \in last'.pushed
              => /\ U64Sub(time_last'[b], time_last[b]) > min_obs_interval_us'
                 /\ min_obs_interval_us' = min_obs_interval_us]_vars

C1_Witness ==
    \E b \in Sensors :
        /\ b \in last.pushed
        /\ Len(obs_buffer[b].data) = 2
        /\ min_obs_interval_us > 0
        /\ obs_buffer[b].data[2] - obs_buffer[b].data[1] < min_obs_interval_us
        /\ obs_buffer[b].data[2] > obs_buffer[b].data[1]

C3_BuffersSorted ==
    /\ Sorted(imu_buffer.data)
    /\ \A b \in Sensors : Sorted(obs_buffer[b].data)

\* C4: once the allocation of an observation buffer or of the drag buffer has
\* failed, the buffer stays unallocated, allocate is not called on it again,
\* nothing is pushed to it and the error is not logged again; so each
\* buffer's error is logged at most once.
C4_AllocationFailureIsPermanent ==
    [][\A b \in FailFlags :
          /\ err_log'[b] <= 1
          /\ buffer_fail[b]
                => /\ buffer_fail'[b]
                   /\ (IF b = "drag" THEN drag_buffer' ELSE obs_buffer'[b]) = Unallocated
                   /\ b \notin last'.alloc
                   /\ b \notin last'.pushed
                   /\ err_log'[b] = err_log[b]]_vars

C4_Witness ==
    \E b \in Sensors :
        /\ buffer_fail[b]
        /\ err_log[b] = 1
        /\ last.op \in ObsOps
        /\ last.alloc = {}
        /\ initialised

\* C5: a non-IMU intake called while _initialised is false changes nothing of
\* the state.
C5_UninitialisedIntakeIsNoOp ==
    [][(~initialised /\ last'.op \in ObsOps) => UNCHANGED progvars]_vars

C5_Witness ==
    /\ ~initialised
    /\ last.op \in ObsOps
    /\ imu_buffer.len > 0
    /\ \E b \in Sensors : obs_buffer[b].len > 0

Allocated(b) == b.len > 0

\* C8: when initialise_interface has returned true the IMU buffer has the
\* capacity _imu_buffer_length, which is at least 1; and no intake call changes
\* the capacity of the IMU buffer, of an output buffer or of an observation
\* buffer that is allocated.
C8_CapacityFixed ==
    [][/\ last'.init = "ok"
           => imu_buffer'.len = imu_buffer_length' /\ imu_buffer_length' >= 1
       /\ last'.op \in IntakeOps
           => /\ Allocated(imu_buffer) => imu_buffer'.len = imu_buffer.len
              /\ Allocated(output_buffer) => output_buffer'.len = output_buffer.len
              /\ Allocated(output_vert_buffer)
                    => output_vert_buffer'.len = output_vert_buffer.len
              /\ \A b \in Sensors :
                    Allocated(obs_buffer[b])
                        => obs_buffer'[b].len = obs_buffer[b].len]_vars

C8_Witness ==
    /\ last.op = "setIMUData"
    /\ last.init = "ok"
    /\ Len(imu_buffer.data) > 0
    /\ \E b \in Sensors :
          obs_buffer[b].len = obs_buffer_length /\ Len(obs_buffer[b].data) > 0

AllUnallocated ==
    /\ imu_buffer = Unallocated
    /\ output_buffer = Unallocated
    /\ output_vert_buffer = Unallocated
    /\ drag_buffer = Unallocated
    /\ \A b \in Sensors : obs_buffer[b] = Unallocated

\* C9: a call of initialise_interface in which one of the three allocations
\* fails returns false and leaves every buffer of the facade unallocated.  In
\* states: after a call of initialise_interface either it has returned false
\* and every buffer is unallocated, or it has returned true and none of the
\* three allocations has failed.
C9_FailedInitUnallocatesAll ==
    last.op = "initialise_interface"
        => \/ last.init = "failed" /\ AllUnallocated
           \/ /\ last.init = "ok"
              /\ imu_buffer.len = imu_buffer_length
              /\ output_buffer.len = imu_buffer_length
              /\ output_vert_buffer.len = imu_buffer_length
              /\ imu_buffer_length >= 1

C9_Witness ==
    /\ last.op = "initialise_interface"
    /\ last.init = "failed"
    /\ \E b \in Sensors : time_last[b] > 0

\* C6: no call divides by zero, whatever the parameters.
C6_NoDivisionByZero == fault # "div_by_zero"

\* The sizes as C7 gives them, computed from the parameters alone.
ClaimedMaxDelayMs ==
    CHOOSE d \in {params[f] : f \in DelayFields} :
        \A f \in DelayFields : params[f] <= d

ClaimedImuBufferLength == (ClaimedMaxDelayMs \div FILTER_UPDATE_PERIOD_MS) + 1

ClaimedEkfDelayMs == ClaimedMaxDelayMs + ((ClaimedMaxDelayMs + 1) \div 2)

ClaimedObsBufferLength ==
    Min(ClaimedImuBufferLength,
        (ClaimedEkfDelayMs \div params.sensor_interval_min_ms) + 1)

\* C7: once initialise_interface has run, _imu_buffer_length and
\* _obs_buffer_length are floor(max_delay / FILTER_UPDATE_PERIOD_MS) + 1 and
\* min(imu_buffer_length, floor(ekf_delay / sensor_interval_min_ms) + 1) with
\* ekf_delay = max_delay + ceil(max_delay / 2), for every delay of 16 bits, and
\* 1 <= _obs_buffer_length <= _imu_buffer_length; a largest delay of 175 ms
\* with a sensor interval of 20 ms gives 15 and 14.  Stated for sensor
\* intervals above zero, where the quotient is defined.
C7_BufferSizing ==
    (imu_buffer_length > 0 /\ params.sensor_interval_min_ms > 0)
        => /\ imu_buffer_length = ClaimedImuBufferLength
           /\ obs_buffer_length = ClaimedObsBufferLength
           /\ 1 <= obs_buffer_length
           /\ obs_buffer_length <= imu_buffer_length
           /\ (ClaimedMaxDelayMs = 175 /\ params.sensor_interval_min_ms = 20)
                 => (imu_buffer_length = 15 /\ obs_buffer_length = 14)

\* The sample ratio as C10 gives it.
ClaimedSampleRatio == Max(5, CeilDiv(imu_buffer_length, obs_buffer_length))

\* C10, as stated: with drag fusion on and the drag buffer allocated, after k
\* calls of setIMUData floor(k / N) samples have been pushed to the drag buffer.
C10_EmitCountPerCall ==
    (params.use_drag /\ Allocated(drag_buffer))
        => n_drag_out = n_imu_in \div ClaimedSampleRatio

\* C10, amended: with drag fusion on, the drag buffer allocated and a ratio
\* that fits 8 bits, after k calls of setIMUData in which collect_imu returned
\* true floor(k / N) samples have been pushed to the drag buffer and k mod N
\* are accumulated; a pushed sample carries the sums of delta_vel[0..1] and of
\* delta_vel_dt accumulated, last sample included, whose quotient is accelXY,
\* and the mean of the time_us; and the accumulator is zero after the push.
C10_EmitCountPerDownSampledSample ==
    [][(/\ params.use_drag
        /\ Allocated(drag_buffer')
        /\ CeilDiv(imu_buffer_length', obs_buffer_length') <= 255)
          => /\ n_drag_out' = n_imu_ds' \div ClaimedSampleRatio'
             /\ drag_sample_count' = n_imu_ds' % ClaimedSampleRatio'
             /\ "drag" \in last'.pushed
                   => LET e == GetNewest(drag_buffer')
                      IN  /\ \E dv \in DragDeltaVels :
                                e.accelXY = <<drag_down_sampled.accelXY[1] + dv[1],
                                              drag_down_sampled.accelXY[2] + dv[2]>>
                          /\ \E dvdt \in DeltaVelDts :
                                e.dt = drag_sample_time_dt + dvdt
                          /\ e.time_us = (drag_down_sampled.time_us + time_last'["imu"])
                                             \div (drag_sample_count + 1)
                          /\ drag_sample_count + 1 = ClaimedSampleRatio'
                          /\ drag_down_sampled' = DragZero
                          /\ drag_sample_time_dt' = 0]_vars

C10_Witness ==
    /\ params.use_drag
    /\ "drag" \in last.pushed
    /\ n_drag_out = 2
    /\ n_imu_in > n_imu_ds
    /\ ClaimedSampleRatio = 5

\* The intakes whose only test on a sample is the rate limit.
UngatedSensors == {"mag", "baro", "airspeed", "range", "ev", "auxvel"}

\* A call of the intake of an ungated sensor in which memory is there.
UngatedCall(b, t) ==
    CASE b = "mag" -> setMagData(t, TRUE)
      [] b = "baro" -> setBaroData(t, TRUE)
      [] b = "airspeed" -> setAirspeedData(t, TRUE)
      [] b = "range" -> setRangeData(t, TRUE)
      [] b = "ev" -> setExtVisionData(t, TRUE)
      [] b = "auxvel" -> setAuxVelData(t, TRUE)

\* C11, as stated: a sample offered at t to an initialised sensor whose buffer
\* is or gets allocated is rejected exactly when
\* t - _time_last_<sensor> < _min_obs_interval_us; so the first sample after
\* initialisation and a sample exactly one interval after the last accepted
\* one are retained.
C11_RejectedWhenBelowInterval ==
    [][\A b \in UngatedSensors, t \in RateObsTimes :
          (IntakeOpen(Cur, b) /\ UngatedCall(b, t))
              => (b \in last'.pushed
                     <=> ~(U64Sub(t, time_last[b]) < min_obs_interval_us))]_vars

\* C11, amended: the sample is retained exactly when
\* t - _time_last_<sensor> > _min_obs_interval_us in unsigned arithmetic, with
\* _time_last_<sensor> = 0 after initialisation; a sample exactly one interval
\* after the last accepted one is rejected, and so is a first sample with
\* t <= _min_obs_interval_us.
C11_RetainedWhenAboveInterval ==
    [][\A b \in UngatedSensors, t \in RateObsTimes :
          (IntakeOpen(Cur, b) /\ UngatedCall(b, t))
              => /\ b \in last'.pushed
                     <=> U64Sub(t, time_last[b]) > min_obs_interval_us
                 /\ time_last'[b] = IF b \in last'.pushed THEN t ELSE time_last[b]
                 /\ b \notin last'.pushed => obs_buffer'[b].data = obs_buffer[b].data]_vars

\* Of mag samples offered at 1000, 10000, 21000 and 40000 us under an interval
\* of 20000 us the one offered at 21000 is the only one kept.
C11_Witness ==
    /\ min_obs_interval_us = 20000
    /\ last.op = "setMagData"
    /\ last.pushed = {}
    /\ time_last["mag"] = 21000
    /\ obs_buffer["mag"].data = <<MagTimeUs(params, 21000)>>

\* C12: setGpsData pushes only if GPS use is requested and fix_type > 2; a
\* call with fix_type <= 2 leaves the samples of _gps_buffer and _time_last_gps
\* as they were; a sample that passes the rate limit and the two gates is
\* pushed whether or not collect_gps reports the origin set, with position
\* (0,0) when it does not and the projected position when it does.
C12_GpsGates ==
    [][\A t \in GpsTimes, f \in FixTypes, origin \in BOOLEAN,
          lpos \in GpsProjections, ok \in BOOLEAN :
          \A g \in GpsMsgTimes(t) :
             (last'.op = "setGpsData"
                /\ setGpsData(t, g, f, origin, lpos, TRUE, ok))
                => /\ "gps" \in last'.pushed => (NeedGps(params) /\ f > 2)
                   /\ f <= 2 => /\ obs_buffer'["gps"].data = obs_buffer["gps"].data
                                /\ time_last'["gps"] = time_last["gps"]
                   /\ ( /\ IntakeOpen(Cur, "gps")
                        /\ Allocates(obs_buffer["gps"], obs_buffer_length, ok)
                        /\ U64Sub(t, time_last["gps"]) > min_obs_interval_us
                        /\ (params.use_gps \/ params.vdist_gps)
                        /\ f > 2 )
                      => /\ "gps" \in last'.pushed
                         /\ time_last'["gps"] = t
                         /\ Len(obs_buffer'["gps"].data) > 0
                         /\ last'.payload = IF origin THEN lpos ELSE <<0, 0>>]_vars

\* A GPS sample pushed with position (0,0), the origin not being set, under a
\* configuration that asks for GPS through vdist_sensor_type only.
C12_Witness ==
    /\ last.op = "setGpsData"
    /\ "gps" \in last.pushed
    /\ last.payload = <<0, 0>>
    /\ ~params.use_gps
    /\ params.vdist_gps
    /\ Len(obs_buffer["gps"].data) = 2

\* The three tests of the optical-flow intake as the claim words them:
\* integration time at least half of _min_obs_interval_us, flow rate (norm
\* over integration time, micro-radians over microseconds) at most
\* flow_rate_max, quality at least flow_qual_min.
ClaimedFlowChecksPass(dt, flow_urad, quality) ==
    /\ 2 * dt >= min_obs_interval_us
    /\ dt > 0 /\ flow_urad <= params.flow_rate_max * dt
    /\ quality >= params.flow_qual_min

\* C13: an optical-flow sample that passes the rate limit is pushed, and
\* _time_last_optflow set to its arrival time, if and only if the three tests
\* pass or the vehicle is not in air; a sample dropped in air leaves the
\* samples of _flow_buffer and _time_last_optflow as they were.
C13_FlowGate ==
    [][\A t \in FlowTimes, flow \in FlowMessages(FiniteGyroDatas),
          imu \in MatchingImuSamples,
          a \in BOOLEAN :
          ( /\ last'.op = "setOpticalFlowData"
            /\ IntakeOpen(Cur, "flow")
            /\ U64Sub(t, time_last["flow"]) > min_obs_interval_us
            /\ setOpticalFlowData(t, flow, imu, a, TRUE) )
             => /\ "flow" \in last'.pushed
                    <=> (ClaimedFlowChecksPass(flow.dt, flow.flow_urad, flow.quality)
                            \/ ~a)
                /\ "flow" \in last'.pushed
                    => (time_last'["flow"] = t /\ Len(obs_buffer'["flow"].data) > 0)
                /\ (a /\ ~ClaimedFlowChecksPass(flow.dt, flow.flow_urad, flow.quality))
                    => /\ obs_buffer'["flow"].data = obs_buffer["flow"].data
                       /\ time_last'["flow"] = time_last["flow"]]_vars

\* Two flow samples were pushed while the interval was 12000 us; the second
\* came with an integration time of 2000 us, which only the ground clause lets
\* through.
C13_Witness ==
    /\ last.op = "setOpticalFlowData"
    /\ "flow" \in last.pushed
    /\ min_obs_interval_us = 12000
    /\ Len(obs_buffer["flow"].data) = 2
    /\ GetNewest(obs_buffer["flow"]) = FlowTimeUs(params, time_last["flow"], 2000)

\* C14: in every state reached after the second IMU sample _dt_imu_avg lies
\* between the limits dt is constrained to, 1e-4 s and 0.02 s.
C14_DtImuAvgInRange ==
    n_imu_in >= 2 => (1000 * DtMinUs <= dt_imu_avg /\ dt_imu_avg <= 1000 * DtMaxUs)

\* C15: every sample pushed by setGpsData, setBaroData or setAuxVelData has,
\* when it is pushed, a time_us not below _imu_sample_delayed.time_us.
C15_PushedNotBelowDelayed ==
    [][\A b \in {"gps", "baro", "auxvel"} :
          b \in last'.pushed
             => GetNewest(obs_buffer'[b]) >= imu_sample_delayed']_vars

\* C16: an optical-flow sample is pushed either on the no_gyro path, with the
\* gyro rate taken from the IMU sample, or with the negated gyrodata of the
\* driver, all three components of which are then finite: one non-finite
\* component is enough for the no_gyro path.
C16_NoGyroIfAnyNonFinite ==
    (last.op = "setOpticalFlowData" /\ "flow" \in last.pushed)
        => \/ last.payload.no_gyro
           \/ \A i \in 1..3 : last.payload.gyroXYZ[i].fin

\* C17: whenever initialise_interface has returned true, on a first
\* initialisation or on a later one, _dt_imu_avg is 0, every _time_last_<sensor>
\* (aux velocity and IMU among them) is 0, the fault status is 0,
\* _imu_sample_delayed.time_us is the timestamp given and _initialised is false.
C17_InitResets ==
    (last.op = "initialise_interface" /\ last.init = "ok")
        => /\ dt_imu_avg = 0
           /\ \A n \in TimeLastNames : time_last[n] = 0
           /\ fault_status = 0
           /\ imu_sample_delayed \in InitTimes
           /\ ~initialised

\* C18: after a setIMUData call _imu_updated is true exactly if collect_imu
\* returned true in it and a sample was pushed to _imu_buffer; then
\* _imu_sample_delayed is the oldest sample of _imu_buffer and
\* _min_obs_interval_us is (newest - oldest) / (_obs_buffer_length - 1);
\* otherwise _imu_updated is false, _min_obs_interval_us is unchanged, and so
\* are _imu_buffer and _imu_sample_delayed (apart from what the init that a
\* first call runs does to them).
C18_ImuUpdatedIffPushed ==
    [][\A t \in IntervalTimes, dv \in DeltaVels, dvdt \in DeltaVelDts,
          ready \in BOOLEAN, ub \in UBOutcomes :
          (last'.op = "setIMUData" /\ setIMUData(t, dv, dvdt, ready, 3, TRUE, ub))
             => /\ imu_updated' <=> (ready /\ "imu" \in last'.pushed)
                /\ imu_updated'
                    => /\ imu_sample_delayed' = GetOldest(imu_buffer')
                       /\ obs_buffer_length' - 1 # 0
                       /\ min_obs_interval_us' =
                             U64Sub(GetNewest(imu_buffer'), GetOldest(imu_buffer'))
                                \div (obs_buffer_length' - 1)
                /\ ~imu_updated'
                    => /\ min_obs_interval_us' = min_obs_interval_us
                       /\ last'.init = "none"
                             => /\ imu_buffer' = imu_buffer
                                /\ imu_sample_delayed' = imu_sample_delayed]_vars

\* The time_us values the claim allows a sample of sensor b that arrived at t:
\* t less the delay and half the filter period (baro: then clamped), the delay
\* alone for range and external vision, the delay and half of dt for flow.
ClaimedTimeUs(b, t) ==
    CASE b = "mag" ->
            {U64(t - params.mag_delay_ms * 1000 - HalfPeriodUs)}
      [] b = "airspeed" ->
            {U64(t - params.airspeed_delay_ms * 1000
                   - HalfPeriodUs)}
      [] b = "auxvel" ->
            {U64(t - params.auxvel_delay_ms * 1000
                   - HalfPeriodUs)}
      [] b = "baro" ->
            {Max(U64(t - params.baro_delay_ms * 1000
                       - HalfPeriodUs),
                 imu_sample_delayed)}
      [] b = "range" -> {U64(t - params.range_delay_ms * 1000)}
      [] b = "ev" -> {U64(t - params.ev_delay_ms * 1000)}
      [] b = "flow" ->
            {U64(t - params.flow_delay_ms * 1000 - (dt \div 2)) : dt \in FlowDts}

\* C19: a sample accepted at arrival time t, which is what _time_last_<sensor>
\* then holds, is stored with the back-dated time_us of its sensor, and the
\* stored value does not exceed t.
C19_BackDatedNotAboveArrival ==
    \A b \in Sensors \ {"gps"} :
        b \in last.pushed
            => /\ GetNewest(obs_buffer[b]) \in ClaimedTimeUs(b, time_last[b])
               /\ GetNewest(obs_buffer[b]) <= time_last[b]

\* The first half of C19 alone: the stored time_us is the back-dated one.
BackDatedAsClaimed ==
    \A b \in Sensors \ {"gps"} :
        b \in last.pushed
            => GetNewest(obs_buffer[b]) \in ClaimedTimeUs(b, time_last[b])

\* The intake routine of each observation sensor.
IntakeOf(b) ==
    CASE b = "mag" -> "setMagData"
      [] b = "gps" -> "setGpsData"
      [] b = "baro" -> "setBaroData"
      [] b = "airspeed" -> "setAirspeedData"
      [] b = "range" -> "setRangeData"
      [] b = "flow" -> "setOpticalFlowData"
      [] b = "ev" -> "setExtVisionData"
      [] b = "auxvel" -> "setAuxVelData"

\* C20: observation buffers are allocated lazily.  A buffer of capacity 0 gets
\* a capacity only in a call of its sensor's intake made while _initialised is
\* true, never in initialise_interface or another call; and the first such call
\* for a sensor whose buffer was never used makes exactly one allocation, of
\* _obs_buffer_length, after which the capacity is _obs_buffer_length, or the
\* fail flag of the sensor is set, the capacity still 0 and nothing pushed.
C20_LazyAllocation ==
    [][\A b \in Sensors :
          /\ (obs_buffer[b].len = 0 /\ obs_buffer'[b].len # 0)
                => (last'.op = IntakeOf(b) /\ initialised /\ last'.alloc = {b})
          /\ ( /\ last'.op = IntakeOf(b)
               /\ initialised
               /\ obs_buffer[b].len = 0
               /\ ~buffer_fail[b] )
                => /\ last'.alloc = {b}
                   /\ \/ obs_buffer'[b].len = obs_buffer_length
                      \/ /\ buffer_fail'[b]
                         /\ obs_buffer'[b].len = 0
                         /\ last'.pushed = {}
          /\ b \in last'.alloc
                => (last'.op = IntakeOf(b) /\ initialised /\ obs_buffer[b].len = 0)]_vars

\* The first sample of a sensor made its intake allocate a buffer of
\* _obs_buffer_length, 2, not of _imu_buffer_length, 4, and was pushed.
C20_Witness ==
    \E b \in Sensors :
        /\ last.op = IntakeOf(b)
        /\ last.alloc = {b}
        /\ b \in last.pushed
        /\ obs_buffer[b].len = 2
        /\ imu_buffer_length = 4
        /\ output_buffer.len = 4

\* C21: in every state in which _initialised is true the IMU buffer is
\* allocated, with the capacity _imu_buffer_length, which is at least 1.
C21_InitialisedHasImuBuffer ==
    initialised => (imu_buffer.len = imu_buffer_length /\ imu_buffer_length >= 1)

\* What an intake call for sensor b leaves alone whatever it does: the buffer,
\* _time_last value and fail flag of every other sensor, the drag buffer and
\* its fail flag, the IMU and output buffers, the IMU samples and what
\* setIMUData and initialise_interface derive.
OthersUnchanged(b) ==
    /\ \A c \in Sensors \ {b} :
          /\ obs_buffer'[c] = obs_buffer[c]
          /\ time_last'[c] = time_last[c]
          /\ buffer_fail'[c] = buffer_fail[c]
    /\ time_last'["imu"] = time_last["imu"]
    /\ buffer_fail'["drag"] = buffer_fail["drag"]
    /\ UNCHANGED <<initialised, imu_buffer_length, obs_buffer_length,
                   min_obs_interval_us, imu_sample_delayed, imu_sample_new,
                   imu_updated, dt_imu_avg, fault_status, imu_buffer,
                   output_buffer, output_vert_buffer, drag_buffer,
                   drag_sample_count, drag_down_sampled, drag_sample_time_dt>>

\* A call that pushes nothing leaves the samples of the sensor's buffer and
\* its _time_last value as they were.
RejectedUnchanged(b) ==
    b \notin last'.pushed
        => /\ obs_buffer'[b].data = obs_buffer[b].data
           /\ time_last'[b] = time_last[b]

\* C22, as stated: an intake call for a non-IMU sensor changes only that
\* sensor's buffer, _time_last value and fail flag, so no other member of the
\* facade, and a rejected call changes neither the samples of the buffer nor
\* the _time_last value.
C22_OnlyOwnSensorChanges ==
    [][\A b \in Sensors :
          last'.op = IntakeOf(b)
             => /\ OthersUnchanged(b)
                /\ gps_speed_valid' = gps_speed_valid
                /\ RejectedUnchanged(b)]_vars

\* C22, amended: as above, but setGpsData also writes _gps_speed_valid, when
\* the sample passes its gates and so is pushed; no other intake and no
\* rejected call does.
C22_OwnSensorAndGpsSpeedValid ==
    [][\A b \in Sensors :
          last'.op = IntakeOf(b)
             => /\ OthersUnchanged(b)
                /\ gps_speed_valid' # gps_speed_valid
                      => (b = "gps" /\ "gps" \in last'.pushed)
                /\ RejectedUnchanged(b)]_vars

\* A mag sample was rejected by the rate limit while the GPS buffer held a
\* sample and _gps_speed_valid had been set by it.
C22_Witness ==
    /\ last.op = "setMagData"
    /\ last.pushed = {}
    /\ last.alloc = {}
    /\ Len(obs_buffer["mag"].data) = 1
    /\ Len(obs_buffer["gps"].data) = 1
    /\ gps_speed_valid
    /\ min_obs_interval_us > 0

====
